---- MODULE Spec2Model ----
(***************************************************************************)
(* The constraint engine of sudokuz: SudokuSolver (isValidMove, solve,     *)
(* generateComplete, validateGrid, isComplete, getHint) over the grid      *)
(* geometries of getGridConfig, driven by a caller that writes cells of a  *)
(* grid and calls the engine on it; SudokuGenerator.copyGrid over row       *)
(* arrays that have an identity; and the game state of SudokuProvider,     *)
(* driven by the cell key handler, the number pad and the game controls.   *)
(*                                                                         *)
(* A grid is a function row -> (col -> value) over 0..size-1; the empty    *)
(* cell is null.  A cell position ([row, col] and {row, col} alike) is the *)
(* tuple <<row, col>>; the null position is nullCell.                      *)
(***************************************************************************)
EXTENDS Integers, Sequences, FiniteSets, TLC

VARIABLES gridConfig, grid, edits, last,   \* a caller of SudokuSolver
          solving,                         \* a call of solve under way
          heap,                            \* the row arrays, by address
          copyTest,                        \* a caller of SudokuGenerator.copyGrid
          gameState, ui                    \* SudokuProvider and its components

vars == <<gridConfig, grid, edits, last, solving, heap, copyTest, gameState, ui>>

\* What SudokuSolver and its caller leave alone.
beyondEngine == <<heap, copyTest, gameState, ui>>

\* What a caller of SudokuSolver leaves alone when its calls are taken whole.
beyondSolver == <<solving, beyondEngine>>

\* Cell writes of the caller per behaviour on the 4x4 grid.
MaxEdits == 1

\* The empty cell of (number | null)[][].
null == 0

\* The null CellPosition / [number, number] | null.
nullCell == <<>>

----------------------------------------------------------------------------
\* Geometry and grids

\* getGridConfig with the sub-box of 'medium' taken three rows by two columns.
getGridConfigMediumSwapped(difficulty) ==
    CASE difficulty = "easy" ->
           [size |-> 4, subGridRows |-> 2, subGridCols |-> 2, maxNumber |-> 4]
      [] difficulty = "medium" ->
           [size |-> 6, subGridRows |-> 3, subGridCols |-> 2, maxNumber |-> 6]
      [] difficulty = "hard" ->
           [size |-> 16, subGridRows |-> 4, subGridCols |-> 4, maxNumber |-> 16]
      [] OTHER ->
           [size |-> 6, subGridRows |-> 3, subGridCols |-> 2, maxNumber |-> 6]

getGridConfig(difficulty) ==
    CASE difficulty = "easy" ->
           [size |-> 4, subGridRows |-> 2, subGridCols |-> 2, maxNumber |-> 4]
      [] difficulty = "medium" ->
           [size |-> 6, subGridRows |-> 2, subGridCols |-> 3, maxNumber |-> 6]
      [] difficulty = "hard" ->
           [size |-> 16, subGridRows |-> 4, subGridCols |-> 4, maxNumber |-> 16]
      [] OTHER ->
           [size |-> 6, subGridRows |-> 2, subGridCols |-> 3, maxNumber |-> 6]

\* The difficulties the engine is explored on.
Difficulties == {"easy", "medium"}

Idx(size) == 0 .. size - 1

\* A JavaScript array literal (a sequence) as a grid indexed from 0.
FromRows(rows) ==
    [r \in Idx(Len(rows)) |-> [c \in Idx(Len(rows[r + 1])) |-> rows[r + 1][c + 1]]]

createEmptyGrid(size) == [r \in Idx(size) |-> [c \in Idx(size) |-> null]]

\* grid[row][col] = value
Put(g, row, col, value) == [g EXCEPT ![row][col] = value]

create4x4Puzzle ==
    [solution |-> FromRows(<< <<1, 2, 3, 4>>,
                              <<3, 4, 1, 2>>,
                              <<2, 1, 4, 3>>,
                              <<4, 3, 2, 1>> >>),
     puzzle   |-> FromRows(<< <<1, null, null, 4>>,
                              <<null, 4, 1, null>>,
                              <<2, null, null, 3>>,
                              <<null, 3, 2, null>> >>)]

create6x6Puzzle ==
    [solution |-> FromRows(<< <<1, 2, 3, 4, 5, 6>>,
                              <<4, 5, 6, 1, 2, 3>>,
                              <<2, 3, 1, 5, 6, 4>>,
                              <<5, 6, 4, 2, 3, 1>>,
                              <<3, 1, 2, 6, 4, 5>>,
                              <<6, 4, 5, 3, 1, 2>> >>),
     puzzle   |-> FromRows(<< <<1, null, null, 4, null, 6>>,
                              <<null, 5, null, null, 2, null>>,
                              <<2, null, 1, null, null, 4>>,
                              <<null, 6, null, 2, null, null>>,
                              <<null, 1, null, null, 4, null>>,
                              <<6, null, 5, null, null, 2>> >>)]

\* create16x16Puzzle without the shift of one per band of four rows.
create16x16PuzzleNoShift ==
    LET solution == [row \in Idx(16) |->
                       [col \in Idx(16) |-> ((row * 4 + col) % 16) + 1]]
    IN  [solution |-> solution,
         puzzle   |-> [row \in Idx(16) |->
                         [col \in Idx(16) |->
                            IF (row + col) % 3 = 0 THEN null ELSE solution[row][col]]]]

create16x16Puzzle ==
    LET solution == [row \in Idx(16) |->
                       [col \in Idx(16) |-> ((row * 4 + (row \div 4) + col) % 16) + 1]]
    IN  [solution |-> solution,
         puzzle   |-> [row \in Idx(16) |->
                         [col \in Idx(16) |->
                            IF (row + col) % 3 = 0 THEN null ELSE solution[row][col]]]]

createPredefinedPuzzle(gc) ==
    CASE gc.size = 4  -> create4x4Puzzle
      [] gc.size = 6  -> create6x6Puzzle
      [] gc.size = 16 -> create16x16Puzzle
      [] OTHER        -> create6x6Puzzle

----------------------------------------------------------------------------
\* SudokuSolver

\* isValidMove with the row loop not skipping the cell itself.
isValidMoveSelfConflict(g, row, col, num, gc) ==
    LET boxStartRow == (row \div gc.subGridRows) * gc.subGridRows
        boxStartCol == (col \div gc.subGridCols) * gc.subGridCols
    IN  /\ \A c \in Idx(gc.size) : ~(g[row][c] = num)
        /\ \A r \in Idx(gc.size) : ~(r # row /\ g[r][col] = num)
        /\ \A r \in boxStartRow .. boxStartRow + gc.subGridRows - 1 :
             \A c \in boxStartCol .. boxStartCol + gc.subGridCols - 1 :
                ~((r # row \/ c # col) /\ g[r][c] = num)

\* isValidMove with the sub-box taken subGridCols rows by subGridRows columns.
isValidMoveSwappedBox(g, row, col, num, gc) ==
    LET boxStartRow == (row \div gc.subGridCols) * gc.subGridCols
        boxStartCol == (col \div gc.subGridRows) * gc.subGridRows
    IN  /\ \A c \in Idx(gc.size) : ~(c # col /\ g[row][c] = num)
        /\ \A r \in Idx(gc.size) : ~(r # row /\ g[r][col] = num)
        /\ \A r \in boxStartRow .. boxStartRow + gc.subGridCols - 1 :
             \A c \in boxStartCol .. boxStartCol + gc.subGridRows - 1 :
                ~((r # row \/ c # col) /\ g[r][c] = num)

isValidMove(g, row, col, num, gc) ==
    LET boxStartRow == (row \div gc.subGridRows) * gc.subGridRows
        boxStartCol == (col \div gc.subGridCols) * gc.subGridCols
    IN  /\ \A c \in Idx(gc.size) : ~(c # col /\ g[row][c] = num)
        /\ \A r \in Idx(gc.size) : ~(r # row /\ g[r][col] = num)
        /\ \A r \in boxStartRow .. boxStartRow + gc.subGridRows - 1 :
             \A c \in boxStartCol .. boxStartCol + gc.subGridCols - 1 :
                ~((r # row \/ c # col) /\ g[r][c] = num)

\* getPossibleNumbers with the loop starting at 0 (num = 0).
getPossibleNumbersFromZero(g, row, col, gc) ==
    SelectSeq([i \in 1 .. gc.maxNumber + 1 |-> i - 1],
              LAMBDA num : isValidMove(g, row, col, num, gc))

\* getPossibleNumbers with the loop ending before maxNumber (num < maxNumber).
getPossibleNumbersBelowMax(g, row, col, gc) ==
    SelectSeq([i \in 1 .. gc.maxNumber - 1 |-> i],
              LAMBDA num : isValidMove(g, row, col, num, gc))

getPossibleNumbers(g, row, col, gc) ==
    SelectSeq([i \in 1 .. gc.maxNumber |-> i],
              LAMBDA num : isValidMove(g, row, col, num, gc))

\* The inner loop of findBestEmptyCell taking a cell with as many possibilities
\* as the best so far (possibilities <= minPossibilities).
RECURSIVE findBestInRowLastMinimum(_, _, _, _, _)
findBestInRowLastMinimum(g, gc, row, col, st) ==
    IF col >= gc.size \/ st.returned THEN st
    ELSE IF g[row][col] = null
    THEN LET possibilities == Len(getPossibleNumbers(g, row, col, gc))
         IN  IF possibilities <= st.minPossibilities
             THEN findBestInRowLastMinimum(g, gc, row, col + 1,
                                           [bestCell |-> <<row, col>>,
                                            minPossibilities |-> possibilities,
                                            returned |-> possibilities = 1])
             ELSE findBestInRowLastMinimum(g, gc, row, col + 1, st)
    ELSE findBestInRowLastMinimum(g, gc, row, col + 1, st)

\* The loops of findBestEmptyCell carry [bestCell, minPossibilities, returned]:
\* returned is the return from inside the loops.  The inner loop, from col on:
RECURSIVE findBestInRow(_, _, _, _, _)
findBestInRow(g, gc, row, col, st) ==
    IF col >= gc.size \/ st.returned THEN st
    ELSE IF g[row][col] = null
    THEN LET possibilities == Len(getPossibleNumbers(g, row, col, gc))
         IN  IF possibilities < st.minPossibilities
             THEN findBestInRow(g, gc, row, col + 1,
                                [bestCell |-> <<row, col>>,
                                 minPossibilities |-> possibilities,
                                 returned |-> possibilities = 1])
             ELSE findBestInRow(g, gc, row, col + 1, st)
    ELSE findBestInRow(g, gc, row, col + 1, st)

\* The outer loop, from row on: what the inner loop leaves of row is what the
\* loop goes on with (swept is that value, computed once).
RECURSIVE findBestFromRow(_, _, _, _)
findBestFromRow(g, gc, row, st) ==
    IF row >= gc.size \/ st.returned THEN st
    ELSE CHOOSE res \in {findBestFromRow(g, gc, row + 1, swept) :
                            swept \in {findBestInRow(g, gc, row, 0, st)}} : TRUE

findBestEmptyCell(g, gc) ==
    findBestFromRow(g, gc, 0, [bestCell |-> nullCell,
                               minPossibilities |-> gc.maxNumber + 1,
                               returned |-> FALSE]).bestCell

\* solveRecursive works on the caller's grid in place: the model hands the grid
\* through every call and returns it with the result.
RECURSIVE solveRecursive(_, _)
RECURSIVE tryNumbers(_, _, _, _, _, _)

\* The for loop of solveRecursive without the backtracking assignment
\* grid[row][col] = null.
RECURSIVE tryNumbersNoBacktrack(_, _, _, _, _, _)
tryNumbersNoBacktrack(g, gc, row, col, possibleNumbers, i) ==
    IF i > Len(possibleNumbers) THEN [result |-> FALSE, grid |-> g]
    ELSE LET sub == solveRecursive(Put(g, row, col, possibleNumbers[i]), gc)
         IN  IF sub.result THEN sub
             ELSE tryNumbersNoBacktrack(sub.grid, gc, row, col, possibleNumbers, i + 1)

\* The for loop of solveRecursive from possibleNumbers[i] on.
tryNumbers(g, gc, row, col, possibleNumbers, i) ==
    IF i > Len(possibleNumbers) THEN [result |-> FALSE, grid |-> g]
    ELSE LET sub == solveRecursive(Put(g, row, col, possibleNumbers[i]), gc)
         IN  IF sub.result THEN sub
             ELSE tryNumbers(Put(sub.grid, row, col, null), gc, row, col,
                             possibleNumbers, i + 1)

solveRecursive(g, gc) ==
    LET bestCell == findBestEmptyCell(g, gc)
    IN  IF bestCell = nullCell THEN [result |-> TRUE, grid |-> g]
        ELSE tryNumbers(g, gc, bestCell[1], bestCell[2],
                        getPossibleNumbers(g, bestCell[1], bestCell[2], gc), 1)

solve(g, gc) == solveRecursive(g, gc)

\* The inner loop of validateGrid without the restoring assignment
\* grid[row][col] = num.
RECURSIVE validateInRowNoRestore(_, _, _, _)
validateInRowNoRestore(gc, row, col, st) ==
    IF col >= gc.size THEN st
    ELSE LET num == st.grid[row][col]
         IN  IF num # null
             THEN LET removed == Put(st.grid, row, col, null)
                      found   == IF ~isValidMove(removed, row, col, num, gc)
                                 THEN Append(st.conflicts, <<row, col>>)
                                 ELSE st.conflicts
                  IN  validateInRowNoRestore(gc, row, col + 1,
                                             [grid |-> removed, conflicts |-> found])
             ELSE validateInRowNoRestore(gc, row, col + 1, st)

\* The inner loop of validateGrid with the restoring assignment skipped for a
\* cell that is pushed to conflicts.
RECURSIVE validateInRowConflictLeftEmpty(_, _, _, _)
validateInRowConflictLeftEmpty(gc, row, col, st) ==
    IF col >= gc.size THEN st
    ELSE LET num == st.grid[row][col]
         IN  IF num # null
             THEN LET removed == Put(st.grid, row, col, null)
                  IN  IF ~isValidMove(removed, row, col, num, gc)
                      THEN validateInRowConflictLeftEmpty(gc, row, col + 1,
                               [grid |-> removed,
                                conflicts |-> Append(st.conflicts, <<row, col>>)])
                      ELSE validateInRowConflictLeftEmpty(gc, row, col + 1,
                               [grid |-> Put(removed, row, col, num),
                                conflicts |-> st.conflicts])
             ELSE validateInRowConflictLeftEmpty(gc, row, col + 1, st)

\* The loops of validateGrid carry [grid, conflicts]: each filled cell is
\* emptied, tested with its own number and written back.  The inner loop, from
\* col on:
RECURSIVE validateInRow(_, _, _, _)
validateInRow(gc, row, col, st) ==
    IF col >= gc.size THEN st
    ELSE LET num == st.grid[row][col]
         IN  IF num # null
             THEN LET removed == Put(st.grid, row, col, null)
                      found   == IF ~isValidMove(removed, row, col, num, gc)
                                 THEN Append(st.conflicts, <<row, col>>)
                                 ELSE st.conflicts
                  IN  validateInRow(gc, row, col + 1,
                                    [grid |-> Put(removed, row, col, num),
                                     conflicts |-> found])
             ELSE validateInRow(gc, row, col + 1, st)

\* The outer loop, from row on.
RECURSIVE validateFromRow(_, _, _)
validateFromRow(gc, row, st) ==
    IF row >= gc.size THEN st
    ELSE validateFromRow(gc, row + 1, validateInRow(gc, row, 0, st))

\* [isValid, conflicts] and the grid as validateGrid leaves it.
validateGrid(g, gc) ==
    LET st == validateFromRow(gc, 0, [grid |-> g, conflicts |-> <<>>])
    IN  [isValid |-> Len(st.conflicts) = 0, conflicts |-> st.conflicts,
         grid |-> st.grid]

\* isComplete without the loops that look for an empty cell.
isCompleteNoFillCheck(g, gc) ==
    LET v == validateGrid(g, gc)
    IN  [result |-> v.isValid, grid |-> v.grid]

\* [result] and the grid as isComplete leaves it.
isComplete(g, gc) ==
    IF \E row \in Idx(gc.size) : \E col \in Idx(gc.size) : g[row][col] = null
    THEN [result |-> FALSE, grid |-> g]
    ELSE LET v == validateGrid(g, gc)
         IN  [result |-> v.isValid, grid |-> v.grid]

\* emptyCells.sort((a, b) => aPossibilities - bPossibilities): the sort is
\* stable, so the cells come out by ascending number of possibilities and, within
\* one number, in the order they had.  keyed pairs each cell with its number;
\* the cells with number n, n + 1, ... follow one another.
RECURSIVE sortedFrom(_, _, _)
sortedFrom(keyed, n, maxNumber) ==
    IF n > maxNumber THEN <<>>
    ELSE SelectSeq(keyed, LAMBDA e : e[1] = n) \o sortedFrom(keyed, n + 1, maxNumber)

\* getHint without the sort.
sortByPossibilitiesUnsorted(cells, g, gc) == cells

sortByPossibilities(cells, g, gc) ==
    LET keyed == SelectSeq([i \in 1 .. Len(cells) |->
                              <<Len(getPossibleNumbers(g, cells[i][1], cells[i][2], gc)),
                                cells[i]>>],
                           LAMBDA e : TRUE)
        sorted == sortedFrom(keyed, 0, gc.maxNumber)
    IN  [i \in 1 .. Len(sorted) |-> sorted[i][2]]

\* The solution argument is never read.
getHint(g, solution, gc) ==
    LET all == [k \in 1 .. gc.size * gc.size |->
                  <<(k - 1) \div gc.size, (k - 1) % gc.size>>]
        emptyCells == SelectSeq(all, LAMBDA p : g[p[1]][p[2]] = null)
    IN  IF Len(emptyCells) = 0 THEN nullCell
        ELSE sortByPossibilities(emptyCells, g, gc)[1]

\* The bound of the loops of findFirstEmptyCell.
LegacySize == 9

\* findFirstEmptyCell sweeps rows and columns 0..8 of any grid.  Reading a
\* column past the row's end gives undefined, which is not null; reading a row
\* past the grid's end gives undefined, and indexing it throws a TypeError.
RECURSIVE findFirstFrom(_, _)
findFirstFrom(g, k) ==
    IF k >= LegacySize * LegacySize THEN [threw |-> FALSE, cell |-> nullCell]
    ELSE LET row == k \div LegacySize
             col == k % LegacySize
         IN  IF row \notin DOMAIN g THEN [threw |-> TRUE, cell |-> nullCell]
             ELSE IF col \notin DOMAIN g[row] THEN findFirstFrom(g, k + 1)
             ELSE IF g[row][col] = null THEN [threw |-> FALSE, cell |-> <<row, col>>]
             ELSE findFirstFrom(g, k + 1)

findFirstEmptyCell(g) == findFirstFrom(g, 0)

\* fillGridRandomly tries the numbers of a cell in the order shuffleArray gives
\* them, and every order is a possible shuffle.  The operator is the set of the
\* ways a call can end, over all shuffles of it and of the calls below it:
\* [threw, result, grid].  A call that returns false has cleared what it placed
\* (the grid is as it got it), so every number is tested against g.  It can end
\* with the success or the exception of any valid number (shuffled to the
\* front), and with false when every valid number can fail.
RECURSIVE fillGridRandomly(_, _)
fillGridRandomly(g, gc) ==
    LET emptyCell == findFirstEmptyCell(g)
    IN  IF emptyCell.threw THEN {[threw |-> TRUE, result |-> FALSE, grid |-> g]}
        ELSE IF emptyCell.cell = nullCell
        THEN {[threw |-> FALSE, result |-> TRUE, grid |-> g]}
        ELSE LET row == emptyCell.cell[1]
                 col == emptyCell.cell[2]
                 valid == {num \in 1 .. gc.maxNumber : isValidMove(g, row, col, num, gc)}
                 calls == {[num |-> num,
                            ends |-> fillGridRandomly(Put(g, row, col, num), gc)] :
                              num \in valid}
                 fails(ends) == {o \in ends : ~o.threw /\ ~o.result}
             IN  UNION {call.ends \ fails(call.ends) : call \in calls}
                   \cup (IF \A call \in calls : fails(call.ends) # {}
                         THEN {[threw |-> FALSE, result |-> FALSE, grid |-> g]}
                         ELSE {})

\* The ways generateComplete can end: the grid it returns, or the exception.
generateComplete(gc) ==
    {[threw |-> o.threw, grid |-> IF o.threw THEN <<>> ELSE o.grid] :
        o \in fillGridRandomly(createEmptyGrid(gc.size), gc)}

----------------------------------------------------------------------------
\* The caller: a grid of one geometry, written cell by cell and handed to the
\* engine.  last is the latest engine call: its name, its arguments, what it
\* returned and the grid as it was at the call.

\* No call of solve is under way.
NotSolving == [pc |-> "idle", stack |-> <<>>, result |-> FALSE]

NoCall == [op |-> "none", row |-> 0, col |-> 0, num |-> 0, result |-> FALSE,
           threw |-> FALSE, cells |-> <<>>, before |-> <<>>]

\* The grids a behaviour starts from.
StartGrids(gc) == {createEmptyGrid(gc.size),
                   createPredefinedPuzzle(gc).puzzle,
                   createPredefinedPuzzle(gc).solution}

Init ==
    /\ gridConfig \in {getGridConfig(d) : d \in Difficulties}
    /\ grid \in StartGrids(gridConfig)
    /\ edits = 0
    /\ last = NoCall
    /\ solving = NotSolving
    /\ heap = <<>>
    /\ copyTest = <<>>
    /\ gameState = <<>>
    /\ ui = <<>>

\* A write on the 6x6 grid multiplies the grids by 216 and each one is far
\* dearer to solve, so the 6x6 grid takes one write less than the 4x4 grid.
EditBudget(gc) == IF gc.size = 4 THEN MaxEdits ELSE MaxEdits - 1

\* grid[row][col] = value, value a number of the geometry or null: the caller
\* sets the grid up and then makes its call.
SetCell(row, col, value) ==
    /\ last.op = "none"
    /\ edits < EditBudget(gridConfig)
    /\ grid[row][col] # value
    /\ grid' = Put(grid, row, col, value)
    /\ edits' = edits + 1
    /\ last' = NoCall
    /\ UNCHANGED <<gridConfig, beyondSolver>>

IsValidMove(row, col, num) ==
    /\ last.op = "none"
    /\ last' = [NoCall EXCEPT !.op = "isValidMove", !.row = row, !.col = col,
                              !.num = num, !.before = grid,
                              !.result = isValidMove(grid, row, col, num, gridConfig)]
    /\ UNCHANGED <<gridConfig, grid, edits, beyondSolver>>

\* const num = grid[row][col]; grid[row][col] = null;
\* isValidMove(grid, row, col, num, gridConfig): a filled cell is emptied and its
\* own number tested on it.
RemoveAndCheck(row, col) ==
    /\ last.op = "none"
    /\ grid[row][col] # null
    /\ LET num == grid[row][col]
           removed == Put(grid, row, col, null)
       IN  /\ grid' = removed
           /\ last' = [NoCall EXCEPT !.op = "removeAndCheck", !.row = row, !.col = col,
                                     !.num = num, !.before = grid,
                                     !.result = isValidMove(removed, row, col, num,
                                                            gridConfig)]
    /\ UNCHANGED <<gridConfig, edits, beyondSolver>>

Solve ==
    /\ last.op = "none"
    /\ LET r == solve(grid, gridConfig)
       IN  /\ grid' = r.grid
           /\ last' = [NoCall EXCEPT !.op = "solve", !.before = grid,
                                     !.result = r.result]
    /\ UNCHANGED <<gridConfig, edits, beyondSolver>>

ValidateGrid ==
    /\ last.op = "none"
    /\ LET r == validateGrid(grid, gridConfig)
       IN  /\ grid' = r.grid
           /\ last' = [NoCall EXCEPT !.op = "validateGrid", !.before = grid,
                                     !.result = r.isValid, !.cells = r.conflicts]
    /\ UNCHANGED <<gridConfig, edits, beyondSolver>>

IsComplete ==
    /\ last.op = "none"
    /\ LET r == isComplete(grid, gridConfig)
       IN  /\ grid' = r.grid
           /\ last' = [NoCall EXCEPT !.op = "isComplete", !.before = grid,
                                     !.result = r.result]
    /\ UNCHANGED <<gridConfig, edits, beyondSolver>>

GetHint ==
    /\ last.op = "none"
    /\ LET hint == getHint(grid, createPredefinedPuzzle(gridConfig).solution, gridConfig)
       IN  last' = [NoCall EXCEPT !.op = "getHint", !.before = grid,
                                  !.result = (hint # nullCell),
                                  !.cells = IF hint = nullCell THEN <<>> ELSE <<hint>>]
    /\ UNCHANGED <<gridConfig, grid, edits, beyondSolver>>

\* const grid = SudokuSolver.generateComplete(gridConfig): the caller's grid is
\* the generated one.
GenerateComplete ==
    /\ last.op = "none"
    /\ edits = 0
    /\ gridConfig.size = 4
    /\ \E o \in generateComplete(gridConfig) :
          /\ grid' = IF o.threw THEN grid ELSE o.grid
          /\ last' = [NoCall EXCEPT !.op = "generateComplete", !.before = grid,
                                    !.threw = o.threw, !.result = ~o.threw]
    /\ UNCHANGED <<gridConfig, edits, beyondSolver>>

Next ==
    \/ \E row \in Idx(gridConfig.size), col \in Idx(gridConfig.size),
          value \in 0 .. gridConfig.maxNumber : SetCell(row, col, value)
    \/ \E row \in Idx(gridConfig.size), col \in Idx(gridConfig.size),
          num \in 1 .. gridConfig.maxNumber : IsValidMove(row, col, num)
    \/ \E row \in Idx(gridConfig.size), col \in Idx(gridConfig.size) :
          RemoveAndCheck(row, col)
    \/ Solve
    \/ ValidateGrid
    \/ IsComplete
    \/ GetHint
    \/ GenerateComplete

Spec == Init /\ [][Next]_vars

----------------------------------------------------------------------------
\* solve taken step by step on the caller's grid.  solving.stack holds a frame for
\* every call of solveRecursive that is in its for loop, the latest last: the
\* cell it chose, its possibleNumbers and the index of the number it is at.
\* solving.pc is "call" where a call of solveRecursive begins, "loop" where the
\* call of the top frame is at the head of its loop, "return" where a call
\* has returned solving.result to its caller, and "done" once solve has
\* returned to the caller of the engine.

Top(stack) == stack[Len(stack)]

Pop(stack) == SubSeq(stack, 1, Len(stack) - 1)

\* SudokuSolver.solve(grid, gridConfig)
SolveCall ==
    /\ last.op = "none"
    /\ solving' = [pc |-> "call", stack |-> <<>>, result |-> FALSE]
    /\ last' = [NoCall EXCEPT !.op = "solving", !.before = grid]
    /\ UNCHANGED <<gridConfig, grid, edits, beyondEngine>>

\* const bestCell = this.findBestEmptyCell(grid, gridConfig);
\* if (!bestCell) return true;
\* const possibleNumbers = this.getPossibleNumbers(grid, row, col, gridConfig);
SolveEnter ==
    /\ solving.pc = "call"
    /\ LET bestCell == findBestEmptyCell(grid, gridConfig)
       IN  solving' =
              IF bestCell = nullCell
              THEN [solving EXCEPT !.pc = "return", !.result = TRUE]
              ELSE [solving EXCEPT
                      !.pc = "loop",
                      !.stack = Append(@, [row |-> bestCell[1], col |-> bestCell[2],
                                           possibleNumbers |->
                                              getPossibleNumbers(grid, bestCell[1],
                                                                 bestCell[2], gridConfig),
                                           i |-> 1])]
    /\ UNCHANGED <<gridConfig, grid, edits, last, beyondEngine>>

\* for (const num of possibleNumbers) { grid[row][col] = num;
\* this.solveRecursive(grid, gridConfig) ... } return false;
SolveLoop ==
    /\ solving.pc = "loop"
    /\ LET frame == Top(solving.stack)
       IN  IF frame.i <= Len(frame.possibleNumbers)
           THEN /\ grid' = Put(grid, frame.row, frame.col, frame.possibleNumbers[frame.i])
                /\ solving' = [solving EXCEPT !.pc = "call"]
           ELSE /\ grid' = grid
                /\ solving' = [solving EXCEPT !.pc = "return", !.result = FALSE,
                                              !.stack = Pop(@)]
    /\ UNCHANGED <<gridConfig, edits, last, beyondEngine>>

\* Back in the caller: if (this.solveRecursive(grid, gridConfig)) return true;
\* grid[row][col] = null; and back in the caller of solve.
SolveReturn ==
    /\ solving.pc = "return"
    /\ IF solving.stack = <<>>
       THEN /\ solving' = [solving EXCEPT !.pc = "done"]
            /\ last' = [last EXCEPT !.op = "solve", !.result = solving.result]
            /\ grid' = grid
       ELSE IF solving.result
       THEN /\ solving' = [solving EXCEPT !.stack = Pop(@)]
            /\ last' = last
            /\ grid' = grid
       ELSE /\ solving' = [solving EXCEPT !.pc = "loop",
                                          !.stack = [@ EXCEPT ![Len(@)].i = @ + 1]]
            /\ last' = last
            /\ grid' = Put(grid, Top(solving.stack).row, Top(solving.stack).col, null)
    /\ UNCHANGED <<gridConfig, edits, beyondEngine>>

SolveStep == SolveEnter \/ SolveLoop \/ SolveReturn

\* The caller sets the grid up in its first and its last row.
SolveNext ==
    \/ \E row \in {0, gridConfig.size - 1}, col \in Idx(gridConfig.size),
          value \in 0 .. gridConfig.maxNumber : SetCell(row, col, value)
    \/ SolveCall
    \/ SolveEnter
    \/ SolveLoop
    \/ SolveReturn

\* The engine runs on one thread with nothing to wait for: a call of solve that
\* has begun takes its next step.
SolveSpec == Init /\ [][SolveNext]_vars /\ WF_vars(SolveStep)

----------------------------------------------------------------------------
\* Row arrays with an identity.  A grid object is its outer array, a function
\* from the row index to the address of a row array; heap gives the row array
\* at each address.  Two grids share a row when one address is in both.  An
\* address is <<block, index>>: the rows one map call creates lie in one block.

\* The addresses of the rows of a grid object.
Rows(g) == {g[r] : r \in DOMAIN g}

\* The grid object as the SudokuSolver operators take it: its cells.
Deref(h, g) == [r \in DOMAIN g |-> h[g[r]]]

\* grid.length
Size(g) == Cardinality(DOMAIN g)

\* The first block with no row in used.
NewBlock(used) ==
    CHOOSE b \in 0 .. Cardinality(used) :
       /\ \A a \in used : a[1] # b
       /\ \A lower \in 0 .. b - 1 : \E a \in used : a[1] = lower

\* rows.map(...): a new outer array of new row arrays holding cells, in a block of
\* their own; [heap, grid].
NewGrid(h, cells) ==
    LET b == NewBlock(DOMAIN h)
        g == [r \in DOMAIN cells |-> <<b, r>>]
    IN  [heap |-> [a \in DOMAIN h \cup Rows(g) |->
                     IF a \in DOMAIN h THEN h[a] ELSE cells[a[2]]],
         grid |-> g]

\* [...grid]: a new outer array of the same row arrays.
copyGridShallow(h, g) == [heap |-> h, grid |-> g]

\* grid.map(row => [...row])
copyGrid(h, g) == NewGrid(h, Deref(h, g))

\* grid[row][col] = value on a grid object.
PutAt(h, g, row, col, value) == [h EXCEPT ![g[row]][col] = value]

----------------------------------------------------------------------------
\* A caller of copyGrid: original is a grid it has built, copy is what copyGrid
\* gave for it, and it writes cells of the one and of the other.  wantOriginal and
\* wantCopy are the cells each must hold: what it held, with the writes made to
\* it.

\* Cell writes of the caller of copyGrid per behaviour.
MaxWrites == 2

CopyInit ==
    /\ \E d \in Difficulties : \E cells \in StartGrids(getGridConfig(d)) :
          LET made == NewGrid(<<>>, cells)
          IN  /\ heap = made.heap
              /\ copyTest = [original |-> made.grid, copy |-> <<>>,
                             wantOriginal |-> cells, wantCopy |-> <<>>, writes |-> 0]
    /\ gridConfig = <<>>
    /\ grid = <<>>
    /\ edits = 0
    /\ last = NoCall
    /\ solving = NotSolving
    /\ gameState = <<>>
    /\ ui = <<>>

\* const copy = SudokuGenerator.copyGrid(original)
CopyGrid ==
    /\ copyTest.copy = <<>>
    /\ LET r == copyGrid(heap, copyTest.original)
       IN  /\ heap' = r.heap
           /\ copyTest' = [copyTest EXCEPT !.copy = r.grid,
                                           !.wantCopy = copyTest.wantOriginal]
    /\ UNCHANGED <<gridConfig, grid, edits, last, solving, gameState, ui>>

\* original[row][col] = value
WriteOriginal(row, col, value) ==
    /\ copyTest.writes < MaxWrites
    /\ heap' = PutAt(heap, copyTest.original, row, col, value)
    /\ copyTest' = [copyTest EXCEPT !.writes = @ + 1,
                                    !.wantOriginal = Put(@, row, col, value)]
    /\ UNCHANGED <<gridConfig, grid, edits, last, solving, gameState, ui>>

\* copy[row][col] = value
WriteCopy(row, col, value) ==
    /\ copyTest.copy # <<>>
    /\ copyTest.writes < MaxWrites
    /\ heap' = PutAt(heap, copyTest.copy, row, col, value)
    /\ copyTest' = [copyTest EXCEPT !.writes = @ + 1,
                                    !.wantCopy = Put(@, row, col, value)]
    /\ UNCHANGED <<gridConfig, grid, edits, last, solving, gameState, ui>>

\* The cells and values the caller writes: the first and the last column of
\* every row; empty, the least and the greatest number of the grid, and a number
\* beyond it (grid[0][0] = 5 on a 4x4 grid).
CopyNext ==
    \/ CopyGrid
    \/ \E row \in DOMAIN copyTest.original, col \in {0, Size(copyTest.original) - 1},
          value \in {null, 1, Size(copyTest.original), Size(copyTest.original) + 1} :
             \/ WriteOriginal(row, col, value)
             \/ WriteCopy(row, col, value)

CopySpec == CopyInit /\ [][CopyNext]_vars

----------------------------------------------------------------------------
\* SudokuGenerator.generatePuzzle and the game state of SudokuProvider.  Every
\* operation of the provider takes the heap and the previous state and gives
\* [heap, state]: the heap it gives still holds the row arrays of the previous
\* state next to those it has built.  Once the state it gives has replaced the
\* previous one, the rows no grid of the state holds are garbage.

\* type Difficulty
AllDifficulties == {"easy", "medium", "hard"}

\* An absent endTime.
undefined == "undefined"

\* The time of a call of Date.now(); the model keeps no clock.
DateNow == "Date.now()"

\* The array literals of createPredefinedPuzzle are copied row by row.
generatePuzzle(h, difficulty) ==
    LET config == getGridConfig(difficulty)
        made == createPredefinedPuzzle(config)
        puzzle == NewGrid(h, made.puzzle)
        solution == NewGrid(puzzle.heap, made.solution)
    IN  [heap |-> solution.heap, puzzle |-> puzzle.grid, solution |-> solution.grid,
         gridConfig |-> config]

\* One empty 6x6 grid is grid, solution and initialGrid at once.
createInitialState ==
    LET emptyGrid == NewGrid(<<>>, [r \in Idx(6) |-> [c \in Idx(6) |-> null]])
    IN  [heap  |-> emptyGrid.heap,
         state |-> [grid |-> emptyGrid.grid, solution |-> emptyGrid.grid,
                    initialGrid |-> emptyGrid.grid, isComplete |-> FALSE,
                    errors |-> {}, selectedCell |-> nullCell, difficulty |-> "medium",
                    gridConfig |-> [size |-> 6, subGridRows |-> 2, subGridCols |-> 3,
                                    maxNumber |-> 6],
                    startTime |-> DateNow, endTime |-> undefined]]

\* The state newGame sets; the effect that runs at mount sets the same state for
\* 'medium'.  Nothing of the state before is kept.
newGame(difficulty) ==
    LET made == generatePuzzle(<<>>, difficulty)
        initial == copyGrid(made.heap, made.puzzle)
    IN  [heap  |-> initial.heap,
         state |-> [grid |-> made.puzzle, solution |-> made.solution,
                    initialGrid |-> initial.grid, isComplete |-> FALSE,
                    errors |-> {}, selectedCell |-> nullCell, difficulty |-> difficulty,
                    gridConfig |-> made.gridConfig,
                    startTime |-> DateNow, endTime |-> undefined]]

\* The row arrays that solution and initialGrid hold.
Others(state) == Rows(state.solution) \cup Rows(state.initialGrid)

\* `${r}-${c}`
errorKey(r, c) == ToString(r) \o "-" \o ToString(c)

\* The rows of the grid object g hold cells.
Store(h, g, cells) ==
    [a \in DOMAIN h |->
       IF a \in Rows(g) THEN cells[CHOOSE r \in DOMAIN g : g[r] = a] ELSE h[a]]

\* withGrid that leaves isComplete and endTime as they were.
withGridStaleComplete(h, prev, newGrid, selectedCell) ==
    LET validation == validateGrid(Deref(h, newGrid), prev.gridConfig)
        validated == Store(h, newGrid, validation.grid)
        newErrors == {errorKey(validation.conflicts[i][1], validation.conflicts[i][2]) :
                         i \in 1 .. Len(validation.conflicts)}
    IN  [heap  |-> validated,
         state |-> [prev EXCEPT !.grid = newGrid, !.errors = newErrors,
                                !.selectedCell = selectedCell]]

\* The tail of makeMove and of getHint: validateGrid and isComplete run on the
\* new grid object, and the state is put together.
withGrid(h, prev, newGrid, selectedCell) ==
    LET validation == validateGrid(Deref(h, newGrid), prev.gridConfig)
        validated == Store(h, newGrid, validation.grid)
        newErrors == {errorKey(validation.conflicts[i][1], validation.conflicts[i][2]) :
                         i \in 1 .. Len(validation.conflicts)}
        complete == isComplete(Deref(validated, newGrid), prev.gridConfig)
    IN  [heap  |-> Store(validated, newGrid, complete.grid),
         state |-> [prev EXCEPT !.grid = newGrid, !.errors = newErrors,
                                !.isComplete = complete.result,
                                !.selectedCell = selectedCell,
                                !.endTime = IF complete.result THEN DateNow ELSE @]]

\* prev.grid.map(...) with value at (row, col): every row of the new grid is new.
cloneWith(h, prev, row, col, value) ==
    LET g == prev.grid
    IN  NewGrid(h,
                [r \in DOMAIN g |->
                   IF r = row
                   THEN [c \in DOMAIN h[g[r]] |-> IF c = col THEN value ELSE h[g[r]][c]]
                   ELSE h[g[r]]])

\* makeMove that writes the value into the row array of prev.grid and keeps the
\* grid object.
makeMoveInPlace(h, prev, row, col, value) ==
    IF h[prev.initialGrid[row]][col] # null THEN [heap |-> h, state |-> prev]
    ELSE withGrid(PutAt(h, prev.grid, row, col, value), prev, prev.grid,
                  prev.selectedCell)

\* makeMove that writes even to a cell the puzzle gives.
makeMoveUnguarded(h, prev, row, col, value) ==
    LET made == cloneWith(h, prev, row, col, value)
    IN  withGrid(made.heap, prev, made.grid, prev.selectedCell)

makeMove(h, prev, row, col, value) ==
    IF h[prev.initialGrid[row]][col] # null THEN [heap |-> h, state |-> prev]
    ELSE LET made == cloneWith(h, prev, row, col, value)
         IN  withGrid(made.heap, prev, made.grid, prev.selectedCell)

selectCell(h, prev, row, col) ==
    [heap |-> h, state |-> [prev EXCEPT !.selectedCell = <<row, col>>]]

\* solvePuzzle that installs prev.solution itself.
solvePuzzleNoCopy(h, prev) ==
    [heap  |-> h,
     state |-> [prev EXCEPT !.grid = prev.solution, !.errors = {},
                            !.isComplete = TRUE, !.endTime = DateNow]]

\* solvePuzzle that leaves the errors as they are.
solvePuzzleKeepErrors(h, prev) ==
    LET copy == copyGrid(h, prev.solution)
    IN  [heap  |-> copy.heap,
         state |-> [prev EXCEPT !.grid = copy.grid,
                                !.isComplete = TRUE, !.endTime = DateNow]]

solvePuzzle(h, prev) ==
    LET copy == copyGrid(h, prev.solution)
    IN  [heap  |-> copy.heap,
         state |-> [prev EXCEPT !.grid = copy.grid, !.errors = {},
                                !.isComplete = TRUE, !.endTime = DateNow]]

\* The getHint of the provider taking the value from solution[hint.col][hint.row].
provideHintTransposed(h, prev) ==
    LET hint == getHint(Deref(h, prev.grid), Deref(h, prev.solution), prev.gridConfig)
    IN  IF hint = nullCell THEN [heap |-> h, state |-> prev]
        ELSE LET made == cloneWith(h, prev, hint[1], hint[2],
                                   h[prev.solution[hint[2]]][hint[1]])
             IN  withGrid(made.heap, prev, made.grid, hint)

\* The getHint of the provider.
provideHint(h, prev) ==
    LET hint == getHint(Deref(h, prev.grid), Deref(h, prev.solution), prev.gridConfig)
    IN  IF hint = nullCell THEN [heap |-> h, state |-> prev]
        ELSE LET made == cloneWith(h, prev, hint[1], hint[2],
                                   h[prev.solution[hint[1]]][hint[2]])
             IN  withGrid(made.heap, prev, made.grid, hint)

\* resetGame that leaves the selection as it is.
resetGameKeepSelection(h, prev) ==
    LET copy == copyGrid(h, prev.initialGrid)
    IN  [heap  |-> copy.heap,
         state |-> [prev EXCEPT !.grid = copy.grid, !.errors = {},
                                !.isComplete = FALSE,
                                !.startTime = DateNow, !.endTime = undefined]]

resetGame(h, prev) ==
    LET copy == copyGrid(h, prev.initialGrid)
    IN  [heap  |-> copy.heap,
         state |-> [prev EXCEPT !.grid = copy.grid, !.errors = {},
                                !.isComplete = FALSE, !.selectedCell = nullCell,
                                !.startTime = DateNow, !.endTime = undefined]]

\* gameState.initialGrid[row][col] !== null, for a row of the grid: a column past
\* the row's end reads undefined, which is not null.
isInitialCell(h, state, row, col) ==
    col \notin DOMAIN h[state.initialGrid[row]] \/ h[state.initialGrid[row]][col] # null

----------------------------------------------------------------------------
\* The components.  ui holds whether the provider has mounted, the number of
\* events handled since the puzzle was loaded or reset, and the latest event:
\* what it was, the cell it was on, and the call it forwarded.

\* Events handled on one puzzle between loads and resets.
MaxOps == 2

NoEvent == [op |-> "none", row |-> -1, col |-> -1, fn |-> "none", value |-> -1]

\* The 16x16 game is the dearest to explore and gets one event less.
OpBudget(difficulty) == IF difficulty = "hard" THEN MaxOps - 1 ELSE MaxOps

\* parseInt(key) of a key that is one digit.
parseInt(key) == CHOOSE n \in 0 .. 9 : ToString(n) = key

\* new RegExp(`^[1-${maxNumber}]$`).test(key) for maxNumber <= 9, and
\* /^[1-9]$/.test(key): key is one character from '1' to the digit of top.
testDigit(top, key) == \E n \in 1 .. top : ToString(n) = key

\* Math.min and Math.max
Min(a, b) == IF a < b THEN a ELSE b
Max(a, b) == IF a > b THEN a ELSE b

\* The call the key handler of the cell (row, col) forwards for key.
handleDivKeyDown(row, col, isInitial, maxNumber, key) ==
    IF isInitial THEN [fn |-> "none", row |-> row, col |-> col, value |-> -1]
    ELSE IF testDigit(IF maxNumber <= 9 THEN maxNumber ELSE 9, key)
    THEN [fn |-> "onValueChange", row |-> row, col |-> col, value |-> parseInt(key)]
    ELSE IF maxNumber = 16 /\ key = "0"
    THEN [fn |-> "onValueChange", row |-> row, col |-> col, value |-> 10]
    ELSE IF key \in {"Delete", "Backspace", " "}
    THEN [fn |-> "onValueChange", row |-> row, col |-> col, value |-> null]
    ELSE IF key \in {"ArrowUp", "ArrowDown", "ArrowLeft", "ArrowRight"}
    THEN LET newRow == CASE key = "ArrowUp"   -> Max(0, row - 1)
                         [] key = "ArrowDown" -> Min(8, row + 1)
                         [] OTHER             -> row
             newCol == CASE key = "ArrowLeft"  -> Max(0, col - 1)
                         [] key = "ArrowRight" -> Min(8, col + 1)
                         [] OTHER              -> col
         IN  IF newRow # row \/ newCol # col
             THEN [fn |-> "onSelect", row |-> newRow, col |-> newCol, value |-> -1]
             ELSE [fn |-> "none", row |-> row, col |-> col, value |-> -1]
    ELSE [fn |-> "none", row |-> row, col |-> col, value |-> -1]

\* The numbers of the buttons of the number pad:
\* Array.from({ length: 9 }, (_, i) => i + 1).
padNumbers == 1 .. 9

GameInit ==
    /\ heap = createInitialState.heap
    /\ gameState = createInitialState.state
    /\ ui = [mounted |-> FALSE, ops |-> 0, event |-> NoEvent]
    /\ gridConfig = <<>>
    /\ grid = <<>>
    /\ edits = 0
    /\ last = NoCall
    /\ solving = NotSolving
    /\ copyTest = <<>>

\* The heap and the state once r.state is the state: the rows no grid of
\* r.state holds are gone, and a grid object that shares no row with solution
\* and initialGrid has its rows in the first block these leave free (an address
\* is an identity and nothing else, so which free block holds them is
\* immaterial).
Collect(r) ==
    LET others == Others(r.state)
        g == r.state.grid
    IN  IF Rows(g) \cap others # {}
        THEN [heap  |-> [a \in Rows(g) \cup others |-> r.heap[a]],
              state |-> r.state]
        ELSE LET b == NewBlock(others)
                 moved == [row \in DOMAIN g |-> <<b, row>>]
             IN  [heap  |-> [a \in Rows(moved) \cup others |->
                               IF a \in others THEN r.heap[a] ELSE r.heap[g[a[2]]]],
                  state |-> [r.state EXCEPT !.grid = moved]]

\* setGameState(r.state) after the event what that left ops events handled.
Install(r, ops, what) ==
    /\ heap' = Collect(r).heap
    /\ gameState' = Collect(r).state
    /\ ui' = [ui EXCEPT !.mounted = TRUE, !.ops = ops, !.event = what]
    /\ UNCHANGED <<gridConfig, grid, edits, last, solving, copyTest>>

\* The effect that runs once the provider has mounted, before any event.
Mount ==
    /\ ~ui.mounted
    /\ Install(newGame("medium"), 0, [NoEvent EXCEPT !.op = "mount"])

\* A click on a difficulty button of GameControls.
NewGame(difficulty) ==
    /\ ui.mounted
    /\ Install(newGame(difficulty), 0, [NoEvent EXCEPT !.op = "newGame"])

\* A click on the cell (row, col) of SudokuGrid.
CellClick(row, col) ==
    /\ ui.mounted
    /\ ui.ops < OpBudget(gameState.difficulty)
    /\ Install(selectCell(heap, gameState, row, col), ui.ops + 1,
               [NoEvent EXCEPT !.op = "click", !.row = row, !.col = col,
                               !.fn = "onSelect"])

\* A key pressed on the cell (row, col) of SudokuGrid.
CellKeyDown(row, col, key) ==
    /\ ui.mounted
    /\ ui.ops < OpBudget(gameState.difficulty)
    /\ LET call == handleDivKeyDown(row, col, isInitialCell(heap, gameState, row, col),
                                    gameState.gridConfig.maxNumber, key)
       IN  Install(CASE call.fn = "onValueChange" ->
                          makeMove(heap, gameState, call.row, call.col, call.value)
                     [] call.fn = "onSelect" ->
                          selectCell(heap, gameState, call.row, call.col)
                     [] OTHER -> [heap |-> heap, state |-> gameState],
                   ui.ops + 1,
                   [op |-> "key", row |-> row, col |-> col, fn |-> call.fn,
                    value |-> call.value])

\* A tap on a button of MobileNumberPad, which shows while a cell that is not
\* initial is selected: handleNumberSelect(number).
NumberPadTap(number) ==
    /\ ui.mounted
    /\ ui.ops < OpBudget(gameState.difficulty)
    /\ gameState.selectedCell # nullCell
    /\ gameState.selectedCell[1] \in DOMAIN gameState.initialGrid
    /\ ~isInitialCell(heap, gameState, gameState.selectedCell[1], gameState.selectedCell[2])
    /\ Install(makeMove(heap, gameState, gameState.selectedCell[1],
                        gameState.selectedCell[2], number),
               ui.ops + 1,
               [op |-> "pad", row |-> gameState.selectedCell[1],
                col |-> gameState.selectedCell[2], fn |-> "makeMove", value |-> number])

\* A click on Solve, which is disabled while the puzzle is complete.
SolvePuzzle ==
    /\ ui.mounted
    /\ ui.ops < OpBudget(gameState.difficulty)
    /\ ~gameState.isComplete
    /\ Install(solvePuzzle(heap, gameState), ui.ops + 1,
               [NoEvent EXCEPT !.op = "solvePuzzle"])

\* A click on Get Hint, which is disabled while the puzzle is complete.
Hint ==
    /\ ui.mounted
    /\ ui.ops < OpBudget(gameState.difficulty)
    /\ ~gameState.isComplete
    /\ Install(provideHint(heap, gameState), ui.ops + 1,
               [NoEvent EXCEPT !.op = "getHint"])

\* A click on Reset; the event keeps the number of events the reset ends.
ResetGame ==
    /\ ui.mounted
    /\ Install(resetGame(heap, gameState), 0,
               [NoEvent EXCEPT !.op = "resetGame", !.value = ui.ops])

\* The cells the events are tried on: the first and the last row, in the first
\* three columns and the last.
CellsTried(config) ==
    {<<row, col>> : row \in {0, config.size - 1}, col \in {0, 1, 2, config.size - 1}}

\* The keys tried: digits within and beyond every grid, the key for ten, the
\* keys that clear, the arrows, and a key the handler has no branch for.
Keys == {"1", "2", "4", "5", "7", "9", "0", "Delete", "Backspace",
         "ArrowUp", "ArrowDown", "ArrowLeft", "ArrowRight", "a"}

\* The buttons of the number pad tried, and its clear button.
PadTried == {n \in padNumbers : ToString(n) \in Keys} \cup {null}

GameNext ==
    \/ Mount
    \/ \E difficulty \in AllDifficulties : NewGame(difficulty)
    \/ \E p \in CellsTried(gameState.gridConfig) : CellClick(p[1], p[2])
    \/ \E p \in CellsTried(gameState.gridConfig), key \in Keys :
          CellKeyDown(p[1], p[2], key)
    \/ \E number \in PadTried : NumberPadTap(number)
    \/ SolvePuzzle
    \/ Hint
    \/ ResetGame

GameSpec == GameInit /\ [][GameNext]_vars

\* Hints asked for in a row on one puzzle: more than the 16x16 puzzle has empty
\* cells.
MaxHints == 90

\* A click on Get Hint in a game where nothing but hints follows the load of
\* the puzzle.
HintAfterHints ==
    /\ ui.mounted
    /\ ui.ops < MaxHints
    /\ ~gameState.isComplete
    /\ Install(provideHint(heap, gameState), ui.ops + 1,
               [NoEvent EXCEPT !.op = "getHint"])

HintNext ==
    \/ Mount
    \/ \E difficulty \in AllDifficulties : NewGame(difficulty)
    \/ HintAfterHints

\* The games played with the Get Hint button alone.
HintSpec == GameInit /\ [][HintNext]_vars

\* Events handled on one 4x4 puzzle in a game played on a touch screen; the
\* larger puzzles get one event less.
MaxTaps == 3

TapBudget(difficulty) == IF difficulty = "easy" THEN MaxTaps ELSE MaxTaps - 1

\* A tap on the cell (row, col) of SudokuGrid.
CellTap(row, col) ==
    /\ ui.mounted
    /\ ui.ops < TapBudget(gameState.difficulty)
    /\ Install(selectCell(heap, gameState, row, col), ui.ops + 1,
               [NoEvent EXCEPT !.op = "click", !.row = row, !.col = col,
                               !.fn = "onSelect"])

\* A tap on a button of MobileNumberPad: handleNumberSelect(number).
NumberTap(number) ==
    /\ ui.mounted
    /\ ui.ops < TapBudget(gameState.difficulty)
    /\ gameState.selectedCell # nullCell
    /\ ~isInitialCell(heap, gameState, gameState.selectedCell[1], gameState.selectedCell[2])
    /\ Install(makeMove(heap, gameState, gameState.selectedCell[1],
                        gameState.selectedCell[2], number),
               ui.ops + 1,
               [op |-> "pad", row |-> gameState.selectedCell[1],
                col |-> gameState.selectedCell[2], fn |-> "makeMove", value |-> number])

\* A tap on Solve, which is disabled while the puzzle is complete.
SolveTap ==
    /\ ui.mounted
    /\ ui.ops < TapBudget(gameState.difficulty)
    /\ ~gameState.isComplete
    /\ Install(solvePuzzle(heap, gameState), ui.ops + 1,
               [NoEvent EXCEPT !.op = "solvePuzzle"])

TapNext ==
    \/ Mount
    \/ \E difficulty \in AllDifficulties : NewGame(difficulty)
    \/ \E p \in CellsTried(gameState.gridConfig) : CellTap(p[1], p[2])
    \/ \E number \in PadTried : NumberTap(number)
    \/ SolveTap

\* The games played on a touch screen with the cells, the number pad and Solve.
TapSpec == GameInit /\ [][TapNext]_vars

----------------------------------------------------------------------------
\* What the claims speak of, stated without the engine.

Cells(gc) == {<<row, col>> : row \in Idx(gc.size), col \in Idx(gc.size)}

BoxOrigin(gc, p) == <<(p[1] \div gc.subGridRows) * gc.subGridRows,
                      (p[2] \div gc.subGridCols) * gc.subGridCols>>

\* q is another cell of p's row, of p's column or of p's sub-box.
SameUnit(gc, p, q) ==
    /\ q # p
    /\ \/ q[1] = p[1]
       \/ q[2] = p[2]
       \/ /\ q[1] \in BoxOrigin(gc, p)[1] .. BoxOrigin(gc, p)[1] + gc.subGridRows - 1
          /\ q[2] \in BoxOrigin(gc, p)[2] .. BoxOrigin(gc, p)[2] + gc.subGridCols - 1

HeldElsewhere(g, gc, p, v) ==
    \E q \in Cells(gc) : SameUnit(gc, p, q) /\ g[q[1]][q[2]] = v

EmptyCells(g, gc) == {p \in Cells(gc) : g[p[1]][p[2]] = null}

ConflictCells(g, gc) ==
    {p \in Cells(gc) : g[p[1]][p[2]] # null /\ HeldElsewhere(g, gc, p, g[p[1]][p[2]])}

\* The values 1..N that isValidMove accepts for p in g.
Candidates(g, gc, p) ==
    {v \in 1 .. gc.maxNumber : isValidMove(g, p[1], p[2], v, gc)}

\* Some filling of the empty cells of g, none of whose values is held elsewhere in
\* its row, column or sub-box, is searched cell by cell in row-major order.
RECURSIVE CanFill(_, _)
CanFill(g, gc) ==
    IF EmptyCells(g, gc) = {} THEN TRUE
    ELSE LET p == CHOOSE e \in EmptyCells(g, gc) :
                     \A o \in EmptyCells(g, gc) :
                        e[1] * gc.size + e[2] <= o[1] * gc.size + o[2]
         IN  \E v \in 1 .. gc.maxNumber :
                /\ ~HeldElsewhere(g, gc, p, v)
                /\ CanFill(Put(g, p[1], p[2], v), gc)

\* g has a completion that satisfies every row, column and sub-box constraint.
HasCompletion(g, gc) == ConflictCells(g, gc) = {} /\ CanFill(g, gc)

----------------------------------------------------------------------------
\* C1: isValidMove(grid, row, col, v, config) is true exactly when no cell other
\* than (row, col) of the same row, column or sub-box holds v, and what the cell
\* (row, col) itself holds does not change the result.
C1_IsValidMoveContract ==
    last.op = "isValidMove" =>
        /\ last.result = ~HeldElsewhere(grid, gridConfig, <<last.row, last.col>>, last.num)
        /\ \A w \in 0 .. gridConfig.maxNumber :
              isValidMove(Put(grid, last.row, last.col, w), last.row, last.col,
                          last.num, gridConfig) = last.result

\* isValidMove accepted v for a cell that itself holds v, in a grid where the same
\* call at another cell is refused.
C1_Witness ==
    /\ last.op = "isValidMove"
    /\ last.result
    /\ grid[last.row][last.col] = last.num
    /\ \E p \in Cells(gridConfig) :
          ~isValidMove(grid, p[1], p[2], last.num, gridConfig)

\* C2: the conflicts of validateGrid are exactly the filled cells whose value is
\* held by another cell of their row, column or sub-box, each listed once (so both
\* cells of a conflicting pair are listed), and isValid is true exactly when the
\* list is empty.
C2_ValidateGridConflicts ==
    last.op = "validateGrid" =>
        /\ {last.cells[i] : i \in 1 .. Len(last.cells)} = ConflictCells(last.before, gridConfig)
        /\ Len(last.cells) = Cardinality(ConflictCells(last.before, gridConfig))
        /\ last.result = (Len(last.cells) = 0)

\* validateGrid listed both cells of a conflicting pair.
C2_Witness ==
    /\ last.op = "validateGrid"
    /\ ~last.result
    /\ \E i, j \in 1 .. Len(last.cells) :
          /\ i # j
          /\ SameUnit(gridConfig, last.cells[i], last.cells[j])
          /\ grid[last.cells[i][1]][last.cells[i][2]] = grid[last.cells[j][1]][last.cells[j][2]]

\* C3: whenever solve returns true the grid has no empty cell, isComplete is true
\* of it, and every cell filled before the call holds its original value.
C3_SolveTrueIsComplete ==
    (last.op = "solve" /\ last.result) =>
        /\ EmptyCells(grid, gridConfig) = {}
        /\ isComplete(grid, gridConfig).result
        /\ \A p \in Cells(gridConfig) :
              last.before[p[1]][p[2]] # null => grid[p[1]][p[2]] = last.before[p[1]][p[2]]

\* C4: solve returns true for every grid that has a completion satisfying all
\* row, column and sub-box constraints.
C4_SolveFindsCompletion ==
    (last.op = "solve" /\ HasCompletion(last.before, gridConfig)) => last.result

\* solve returned true on a grid with a completion in which no empty cell had one
\* candidate only: the sweep ran to its end and the search chose among candidates.
C4_Witness ==
    /\ last.op = "solve"
    /\ last.result
    /\ HasCompletion(last.before, gridConfig)
    /\ EmptyCells(last.before, gridConfig) # {}
    /\ \A p \in EmptyCells(last.before, gridConfig) :
          Cardinality(Candidates(last.before, gridConfig, p)) >= 2

\* C5: whenever solve returns false the grid is cell for cell the grid passed in.
C5_SolveFalseRestores ==
    (last.op = "solve" /\ ~last.result) => grid = last.before

\* solve returned false on a grid every empty cell of which had a candidate: the
\* search placed numbers and unwound them.
C5_Witness ==
    /\ last.op = "solve"
    /\ ~last.result
    /\ EmptyCells(last.before, gridConfig) # {}
    /\ \A p \in EmptyCells(last.before, gridConfig) :
          Candidates(last.before, gridConfig, p) # {}

\* C6: on a grid with no empty cell solve returns true exactly when validateGrid
\* reports no conflicts, and it changes no cell.
C6_SolveFullGrid ==
    (last.op = "solve" /\ EmptyCells(last.before, gridConfig) = {}) =>
        /\ last.result = validateGrid(last.before, gridConfig).isValid
        /\ grid = last.before

\* C7: isComplete is true exactly when every cell is filled and validateGrid
\* reports no conflicts (no filled cell's value is held elsewhere in its row,
\* column or sub-box).
C7_IsCompleteContract ==
    last.op = "isComplete" =>
        /\ last.result = (/\ EmptyCells(last.before, gridConfig) = {}
                          /\ validateGrid(last.before, gridConfig).isValid)
        /\ last.result = (/\ EmptyCells(last.before, gridConfig) = {}
                          /\ ConflictCells(last.before, gridConfig) = {})

\* isComplete refused a grid with every cell filled and a duplicate in it.
C7_Witness ==
    /\ last.op = "isComplete"
    /\ ~last.result
    /\ EmptyCells(grid, gridConfig) = {}
    /\ ConflictCells(grid, gridConfig) # {}

\* C8: generateComplete returns normally, with every cell of the grid filled and
\* isComplete true of it, whatever the shuffles give.
C8_GenerateCompleteSucceeds ==
    last.op = "generateComplete" =>
        /\ ~last.threw
        /\ EmptyCells(grid, gridConfig) = {}
        /\ isComplete(grid, gridConfig).result

\* C9 as claimed: for every cell holding a value v, emptying the cell and calling
\* isValidMove on it with v returns true.
C9_RemovedValueAlwaysValid ==
    last.op = "removeAndCheck" => last.result

\* C9 as amended: for every cell holding a value v that no other cell of its
\* row, column or sub-box holds, emptying the cell and calling isValidMove on it
\* with v returns true (and the call returns false when another cell holds v).
C9_RemovedLegalValueValid ==
    last.op = "removeAndCheck" =>
        (last.result = ~HeldElsewhere(last.before, gridConfig, <<last.row, last.col>>,
                                      last.num))

\* A cell of a grid with other filled cells was emptied and its value accepted.
C9_Witness ==
    /\ last.op = "removeAndCheck"
    /\ last.result
    /\ grid[last.row][last.col] = null
    /\ last.before[last.row][last.col] = last.num
    /\ \E q \in Cells(gridConfig) :
          SameUnit(gridConfig, <<last.row, last.col>>, q) /\ grid[q[1]][q[2]] # null

----------------------------------------------------------------------------
\* C11: isValidMove, validateGrid, isComplete and getHint return with the grid
\* cell for cell as it was at the call, and validateGrid called again on the grid
\* it returned from gives the same isValid and the same conflicts.
C11_ReadersLeaveGrid ==
    last.op \in {"isValidMove", "validateGrid", "isComplete", "getHint"} =>
        /\ grid = last.before
        /\ last.op = "validateGrid" =>
              LET again == validateGrid(grid, gridConfig)
              IN  /\ again.isValid = last.result
                  /\ again.conflicts = last.cells
                  /\ again.grid = last.before

\* validateGrid emptied and wrote back the cells of a grid with conflicts, and
\* the second call lists them again.
C11_Witness ==
    /\ last.op = "validateGrid"
    /\ Len(last.cells) >= 2
    /\ grid = last.before
    /\ validateGrid(grid, gridConfig).conflicts = last.cells

\* C12: copyGrid(grid) returns a grid equal to the original cell for cell that
\* shares no row with it: whatever is written to the copy, the original holds
\* what it held, and whatever is written to the original, the copy holds what it
\* held.
C12_CopyGridIndependent ==
    copyTest.copy # <<>> =>
        /\ Rows(copyTest.copy) \cap Rows(copyTest.original) = {}
        /\ Deref(heap, copyTest.original) = copyTest.wantOriginal
        /\ Deref(heap, copyTest.copy) = copyTest.wantCopy

\* A grid was copied and two writes made, after which the copy and the original
\* hold different numbers at one cell.
C12_Witness ==
    /\ copyTest.copy # <<>>
    /\ copyTest.writes = 2
    /\ \E row \in DOMAIN copyTest.original : \E col \in DOMAIN copyTest.original :
          /\ Deref(heap, copyTest.original)[row][col] # null
          /\ Deref(heap, copyTest.copy)[row][col] # null
          /\ Deref(heap, copyTest.copy)[row][col] # Deref(heap, copyTest.original)[row][col]

----------------------------------------------------------------------------
\* The state is the one a load of a puzzle has just set: generatePuzzle gave its
\* grid and its solution.
JustLoaded == ui.event.op \in {"mount", "newGame"}

\* C13: for every difficulty, generatePuzzle returns a solution for which
\* isComplete is true and a puzzle that has at least one empty cell, has no
\* conflicts under validateGrid, and whose every non-empty cell equals the same
\* cell of the solution.
C13_GeneratedPairValid ==
    JustLoaded =>
        LET puzzle == Deref(heap, gameState.grid)
            solution == Deref(heap, gameState.solution)
            config == gameState.gridConfig
        IN  /\ isComplete(solution, config).result
            /\ EmptyCells(solution, config) = {}
            /\ ConflictCells(solution, config) = {}
            /\ EmptyCells(puzzle, config) # {}
            /\ validateGrid(puzzle, config).isValid
            /\ \A p \in Cells(config) :
                  puzzle[p[1]][p[2]] # null => puzzle[p[1]][p[2]] = solution[p[1]][p[2]]

\* The 16x16 puzzle was generated, with cells of its solution cleared.
C13_Witness ==
    /\ JustLoaded
    /\ gameState.difficulty = "hard"
    /\ Cardinality(EmptyCells(Deref(heap, gameState.grid), gameState.gridConfig)) > 16
    /\ isComplete(Deref(heap, gameState.solution), gameState.gridConfig).result

\* C14: easy is size 4 with 2x2 boxes, medium size 6 with 2x3 boxes, hard size 16
\* with 4x4 boxes; each config has subGridRows * subGridCols = size = maxNumber,
\* and the puzzle and the solution generatePuzzle returns for the difficulty are
\* both size by size.
C14_GeometryFixed ==
    JustLoaded =>
        LET config == gameState.gridConfig
            square(g) == /\ DOMAIN g = 0 .. config.size - 1
                         /\ \A r \in DOMAIN g : DOMAIN heap[g[r]] = 0 .. config.size - 1
        IN  /\ <<config.size, config.subGridRows, config.subGridCols>> =
                  (CASE gameState.difficulty = "easy"   -> <<4, 2, 2>>
                     [] gameState.difficulty = "medium" -> <<6, 2, 3>>
                     [] gameState.difficulty = "hard"   -> <<16, 4, 4>>)
            /\ config.subGridRows * config.subGridCols = config.size
            /\ config.maxNumber = config.size
            /\ square(gameState.grid)
            /\ square(gameState.solution)

\* The medium puzzle was generated by a click on its button, six by six with
\* boxes of two rows and three columns.
C14_Witness ==
    /\ ui.event.op = "newGame"
    /\ gameState.difficulty = "medium"
    /\ gameState.gridConfig.subGridRows = 2
    /\ gameState.gridConfig.subGridCols = 3
    /\ Size(gameState.grid) = 6

----------------------------------------------------------------------------
\* The cells of the current grid, of the solution and of initialGrid.
Current == Deref(heap, gameState.grid)
Solution == Deref(heap, gameState.solution)
Initial == Deref(heap, gameState.initialGrid)

\* The latest event forwarded a value for its cell.
ForwardedValue == ui.event.fn \in {"onValueChange", "makeMove"}

\* C15: in every game state after a puzzle has been loaded, the stored error set
\* is the set of the conflict positions validateGrid reports for the current
\* grid, and the stored isComplete flag is SudokuSolver.isComplete of the current
\* grid.
C15_ErrorsAndFlagMatchGrid ==
    ui.mounted =>
        LET validation == validateGrid(Current, gameState.gridConfig)
        IN  /\ gameState.errors =
                  {errorKey(validation.conflicts[i][1], validation.conflicts[i][2]) :
                      i \in 1 .. Len(validation.conflicts)}
            /\ gameState.isComplete = isComplete(Current, gameState.gridConfig).result

\* A number typed or tapped into a cell left two cells in conflict and the
\* puzzle incomplete.
C15_Witness ==
    /\ ui.mounted
    /\ ForwardedValue
    /\ Cardinality(gameState.errors) >= 2
    /\ errorKey(ui.event.row, ui.event.col) \in gameState.errors
    /\ ~gameState.isComplete

\* C16: once isComplete is true, no operation other than newGame makes it false
\* again.
C16_CompleteIsTerminal ==
    [][(ui.mounted /\ gameState.isComplete /\ ui'.event.op # "newGame")
          => gameState'.isComplete]_vars

\* C17: in every reachable game state, every cell of the current grid is empty or
\* holds a value in 1..N for the grid size N, whether the key handler of a cell
\* or the number pad produced the moves.
C17_CellsHoldLegalValues ==
    ui.mounted =>
        \A row \in DOMAIN Current : \A col \in DOMAIN Current[row] :
           Current[row][col] \in {null} \cup 1 .. gameState.gridConfig.size

C19_SolvePuzzleInstallsCopy ==
    ui.mounted =>
        /\ Solution = createPredefinedPuzzle(gameState.gridConfig).solution
        /\ Rows(gameState.grid) \cap Rows(gameState.solution) = {}
        /\ ui.event.op = "solvePuzzle" =>
              /\ Current = Solution
              /\ gameState.errors = {}
              /\ gameState.isComplete

\* The solution was revealed and a move then changed a cell of the current grid.
C19_Witness ==
    /\ ui.mounted
    /\ gameState.endTime = DateNow
    /\ ForwardedValue
    /\ Current[ui.event.row][ui.event.col] # Solution[ui.event.row][ui.event.col]
    /\ \A p \in Cells(gameState.gridConfig) :
          p # <<ui.event.row, ui.event.col>> => Current[p[1]][p[2]] = Solution[p[1]][p[2]]

\* C20: after resetGame the current grid equals initialGrid cell for cell and
\* shares no row with it, the error set is empty, isComplete is false and no cell
\* is selected, while solution, initialGrid, difficulty and gridConfig are as
\* before; a second resetGame gives the same state again.
C20_ResetGameRestores ==
    [][ui'.event.op = "resetGame" =>
          /\ Deref(heap', gameState'.grid) = Deref(heap', gameState'.initialGrid)
          /\ Rows(gameState'.grid) \cap Rows(gameState'.initialGrid) = {}
          /\ gameState'.errors = {}
          /\ ~gameState'.isComplete
          /\ gameState'.selectedCell = nullCell
          /\ gameState'.solution = gameState.solution
          /\ gameState'.initialGrid = gameState.initialGrid
          /\ Deref(heap', gameState'.solution) = Solution
          /\ Deref(heap', gameState'.initialGrid) = Initial
          /\ gameState'.difficulty = gameState.difficulty
          /\ gameState'.gridConfig = gameState.gridConfig
          /\ Collect(resetGame(heap', gameState'))
                = [heap |-> heap', state |-> gameState']]_vars

\* The game was reset after two events.
C20_Witness ==
    /\ ui.event.op = "resetGame"
    /\ ui.event.value >= 2
    /\ Current = Initial
    /\ gameState.selectedCell = nullCell


----------------------------------------------------------------------------
\* C21: makeMove(row, col, value) on a cell the puzzle does not give yields a grid
\* that differs from the previous grid at most at (row, col), which holds value;
\* no row array of the previous state is written, the rows of the new grid are
\* new, and solution, initialGrid, gridConfig, difficulty and selectedCell are as
\* before.  The state then installed is the one makeMove gave.
C21_MakeMoveCopiesOnWrite ==
    [][(/\ ui.mounted
        /\ ui'.event.fn \in {"onValueChange", "makeMove"}
        /\ Initial[ui'.event.row][ui'.event.col] = null)
          => LET row == ui'.event.row
                 col == ui'.event.col
                 value == ui'.event.value
             IN  \A r \in {makeMove(heap, gameState, row, col, value)} :
                 /\ Deref(r.heap, r.state.grid) = Put(Current, row, col, value)
                 /\ \A a \in DOMAIN heap : r.heap[a] = heap[a]
                 /\ Rows(r.state.grid) \cap DOMAIN heap = {}
                 /\ r.state.solution = gameState.solution
                 /\ r.state.initialGrid = gameState.initialGrid
                 /\ r.state.gridConfig = gameState.gridConfig
                 /\ r.state.difficulty = gameState.difficulty
                 /\ r.state.selectedCell = gameState.selectedCell
                 /\ Collect(r) = [heap |-> heap', state |-> gameState']
                 /\ Deref(heap', gameState'.grid) = Put(Current, row, col, value)
                 /\ Deref(heap', gameState'.solution) = Solution
                 /\ Deref(heap', gameState'.initialGrid) = Initial]_vars

\* A second move put a number into a cell while the cell of the first move kept
\* what that move put.
C21_Witness ==
    /\ ui.mounted
    /\ ForwardedValue
    /\ ui.ops = 2
    /\ ui.event.value # null
    /\ Current[ui.event.row][ui.event.col] = ui.event.value
    /\ \E p \in Cells(gameState.gridConfig) :
          /\ p # <<ui.event.row, ui.event.col>>
          /\ Current[p[1]][p[2]] # Initial[p[1]][p[2]]


----------------------------------------------------------------------------
\* The empty cells of g in row-major order.
EmptyInOrder(g, gc) ==
    SelectSeq([k \in 1 .. gc.size * gc.size |->
                 <<(k - 1) \div gc.size, (k - 1) % gc.size>>],
              LAMBDA p : g[p[1]][p[2]] = null)

\* p is the first in row-major order of the empty cells of g that have the fewest
\* candidates.
FirstFewest(g, gc, p) ==
    /\ p \in EmptyCells(g, gc)
    /\ \A q \in EmptyCells(g, gc) :
          \/ Cardinality(Candidates(g, gc, p)) < Cardinality(Candidates(g, gc, q))
          \/ /\ Cardinality(Candidates(g, gc, p)) = Cardinality(Candidates(g, gc, q))
             /\ p[1] * gc.size + p[2] <= q[1] * gc.size + q[2]

\* C22: at every step of solve, the cell the solver has chosen is an empty cell
\* with the fewest candidates among all empty cells of the grid, the first of
\* them in row-major order, and no cell is chosen only when the grid has no
\* empty cell.
C22_BestCellIsFirstFewest ==
    /\ solving.pc = "loop" =>
          FirstFewest(grid, gridConfig,
                      <<Top(solving.stack).row, Top(solving.stack).col>>)
    /\ (solving.pc = "return" /\ solving.result) => EmptyCells(grid, gridConfig) = {}


\* The cell selection that completes the sweep: the first in row-major order of
\* the empty cells with the fewest candidates, and nullCell when none is empty.
\* cells are the empty cells in order, st is [bestCell, minPossibilities].
RECURSIVE fullSweepFrom(_, _, _, _, _)
fullSweepFrom(g, gc, cells, k, st) ==
    IF k > Len(cells) THEN st.bestCell
    ELSE LET possibilities == Len(getPossibleNumbers(g, cells[k][1], cells[k][2], gc))
         IN  fullSweepFrom(g, gc, cells, k + 1,
                           IF possibilities < st.minPossibilities
                           THEN [bestCell |-> cells[k], minPossibilities |-> possibilities]
                           ELSE st)

fullSweepBestCell(g, gc) ==
    fullSweepFrom(g, gc, EmptyInOrder(g, gc), 1,
                  [bestCell |-> nullCell, minPossibilities |-> gc.maxNumber + 1])

\* The backtracking solver with that cell selection: [result, grid].
RECURSIVE solveFullSweep(_, _)
RECURSIVE tryNumbersFullSweep(_, _, _, _, _, _)
tryNumbersFullSweep(g, gc, row, col, possibleNumbers, i) ==
    IF i > Len(possibleNumbers) THEN [result |-> FALSE, grid |-> g]
    ELSE LET sub == solveFullSweep(Put(g, row, col, possibleNumbers[i]), gc)
         IN  IF sub.result THEN sub
             ELSE tryNumbersFullSweep(Put(sub.grid, row, col, null), gc, row, col,
                                      possibleNumbers, i + 1)

solveFullSweep(g, gc) ==
    LET bestCell == fullSweepBestCell(g, gc)
    IN  IF bestCell = nullCell THEN [result |-> TRUE, grid |-> g]
        ELSE tryNumbersFullSweep(g, gc, bestCell[1], bestCell[2],
                                 getPossibleNumbers(g, bestCell[1], bestCell[2], gc), 1)

\* C23: for every grid, solve returns the same boolean and leaves the same grid
\* as the backtracking solver that completes the sweep and takes the first cell
\* with the fewest candidates; so does solve taken step by step.
C23_ShortCircuitIsOptimisation ==
    last.op = "solve" =>
        \A full \in {solveFullSweep(last.before, gridConfig)} :
           /\ last.result = full.result
           /\ grid = full.grid
           /\ solve(last.before, gridConfig) = full

\* solve has returned on a grid where the sweep was cut short at a cell with
\* one candidate before it came to a cell with none.
C23_Witness ==
    /\ last.op = "solve"
    /\ ~last.result
    /\ grid = last.before
    /\ findBestEmptyCell(last.before, gridConfig)
          # fullSweepBestCell(last.before, gridConfig)

\* The cells of the frames of the stack of solve, the deepest first.
FrameCells == [k \in 1 .. Len(solving.stack) |->
                 <<solving.stack[k].row, solving.stack[k].col>>]

\* The cells that were empty at the call of solve and hold a number now.
Placed == {p \in EmptyCells(last.before, gridConfig) : grid[p[1]][p[2]] # null}

\* While solve runs, the calls of solveRecursive in their loops have chosen
\* different cells, all empty at the call of solve.  While the search goes on,
\* the cells placed and not unwound are the cells of these calls, but for the
\* call at the head of its loop; once a call has returned true they are all the
\* cells that were empty.  So there are never more calls, nor more cells placed,
\* than cells empty at the call, nor than N*N.
DepthBounded ==
    solving.pc \in {"call", "loop", "return"} =>
        /\ \A k \in 1 .. Len(FrameCells) :
              /\ FrameCells[k] \in EmptyCells(last.before, gridConfig)
              /\ \A j \in 1 .. k - 1 : FrameCells[j] # FrameCells[k]
        /\ IF solving.pc = "return" /\ solving.result
           THEN Placed = EmptyCells(last.before, gridConfig)
           ELSE Placed = {FrameCells[k] :
                            k \in 1 .. Len(FrameCells)
                                        - (IF solving.pc = "loop" THEN 1 ELSE 0)}
        /\ Len(solving.stack) <= Cardinality(EmptyCells(last.before, gridConfig))
        /\ Cardinality(EmptyCells(last.before, gridConfig))
              <= gridConfig.size * gridConfig.size

\* C24: solve terminates on every grid, and the number of cells placed by the
\* search and not yet unwound never exceeds the number of cells that were empty
\* at the call, hence never N*N.
C24_SolveTerminatesWithinDepth ==
    /\ []DepthBounded
    /\ (last.op = "solving") ~> (last.op = "solve")

\* The search has filled the last cell of a grid that was empty at the call: as
\* many calls of solveRecursive are in their loops as the grid has cells.
C24_Witness ==
    /\ solving.pc = "return"
    /\ solving.result
    /\ Len(solving.stack) = Cardinality(EmptyCells(last.before, gridConfig))
    /\ Len(solving.stack) = gridConfig.size * gridConfig.size


----------------------------------------------------------------------------
\* C25: when the current grid has an empty cell, the getHint of the game state
\* changes the grid in exactly one cell, the empty cell that SudokuSolver.getHint
\* returns, which then holds the value the stored solution has there, and makes
\* that cell the selected cell; solution, initialGrid, gridConfig and difficulty
\* are as before.  When the grid has no empty cell it returns the state it got.
C25_HintFillsOneCell ==
    [][/\ (ui.mounted /\ EmptyCells(Current, gameState.gridConfig) = {})
            => provideHint(heap, gameState) = [heap |-> heap, state |-> gameState]
       /\ (ui'.event.op = "getHint" /\ EmptyCells(Current, gameState.gridConfig) # {})
            => \A hint \in {getHint(Current, Solution, gameState.gridConfig)} :
                  /\ hint \in EmptyCells(Current, gameState.gridConfig)
                  /\ Solution[hint[1]][hint[2]] # null
                  /\ Deref(heap', gameState'.grid)
                        = Put(Current, hint[1], hint[2], Solution[hint[1]][hint[2]])
                  /\ {p \in Cells(gameState.gridConfig) :
                        Deref(heap', gameState'.grid)[p[1]][p[2]] # Current[p[1]][p[2]]}
                        = {hint}
                  /\ gameState'.selectedCell = hint
                  /\ Deref(heap', gameState'.solution) = Solution
                  /\ Deref(heap', gameState'.initialGrid) = Initial
                  /\ gameState'.gridConfig = gameState.gridConfig
                  /\ gameState'.difficulty = gameState.difficulty]_vars

\* A second hint in a row has filled and selected a cell.
C25_Witness ==
    /\ ui.mounted
    /\ ui.event.op = "getHint"
    /\ ui.ops = 2
    /\ gameState.selectedCell # nullCell
    /\ Initial[gameState.selectedCell[1]][gameState.selectedCell[2]] = null
    /\ Current[gameState.selectedCell[1]][gameState.selectedCell[2]]
          = Solution[gameState.selectedCell[1]][gameState.selectedCell[2]]
    /\ Cardinality(EmptyCells(Current, gameState.gridConfig))
          = Cardinality(EmptyCells(Initial, gameState.gridConfig)) - 2


----------------------------------------------------------------------------
\* C26: in a game of any difficulty where only hints follow the load of the
\* puzzle, the error set is empty after every hint, every hint fills one more
\* empty cell, isComplete is true exactly when as many hints were taken as the
\* puzzle had empty cells, and the grid then equals the stored solution.
C26_HintsAloneComplete ==
    ui.mounted =>
        LET empties == Cardinality(EmptyCells(Initial, gameState.gridConfig))
        IN  /\ gameState.errors = {}
            /\ ui.ops <= empties
            /\ Cardinality(EmptyCells(Current, gameState.gridConfig)) = empties - ui.ops
            /\ gameState.isComplete <=> ui.ops = empties
            /\ gameState.isComplete => Current = Solution

\* The 16x16 puzzle completed by hints alone.
C26_Witness ==
    /\ ui.mounted
    /\ gameState.difficulty = "hard"
    /\ ui.event.op = "getHint"
    /\ ui.ops = Cardinality(EmptyCells(Initial, gameState.gridConfig))
    /\ ui.ops > 0
    /\ gameState.isComplete
    /\ Current = Solution


----------------------------------------------------------------------------
\* The grids without an empty cell that g can be filled to, no value of a filled
\* cell held elsewhere in its row, column or sub-box; the empty cells are filled
\* in row-major order.
RECURSIVE Fillings(_, _)
Fillings(g, gc) ==
    IF EmptyCells(g, gc) = {} THEN {g}
    ELSE LET p == CHOOSE e \in EmptyCells(g, gc) :
                     \A o \in EmptyCells(g, gc) :
                        e[1] * gc.size + e[2] <= o[1] * gc.size + o[2]
         IN  UNION {Fillings(filled, gc) :
                      filled \in {Put(g, p[1], p[2], v) :
                                    v \in {w \in 1 .. gc.maxNumber :
                                              ~HeldElsewhere(g, gc, p, w)}}}

\* The completions of g that satisfy every row, column and sub-box constraint.
Completions(g, gc) == IF ConflictCells(g, gc) = {} THEN Fillings(g, gc) ELSE {}

\* C28: the solution stored with each predefined puzzle (4x4, 6x6, 16x16) is the
\* only completion of the puzzle that satisfies every row, column and sub-box
\* constraint, and solve on the puzzle returns true and leaves that solution.
C28_StoredSolutionIsOnlyCompletion ==
    (ui.mounted /\ ui.ops = 0) =>
        /\ Completions(Initial, gameState.gridConfig) = {Solution}
        /\ solve(Initial, gameState.gridConfig) = [result |-> TRUE, grid |-> Solution]


----------------------------------------------------------------------------
\* C27: once a puzzle is loaded, isComplete is true only when the current grid
\* equals the stored solution cell for cell, whatever moves the cells, the number
\* pad and the buttons forwarded.
C27_CompleteOnlyAtSolution ==
    (ui.mounted /\ gameState.isComplete) => Current = Solution


----------------------------------------------------------------------------
\* C29: in every state of the game the selected cell is none or a position
\* (row, col) with 0 <= row < N and 0 <= col < N for the size N of the current
\* grid, also after an arrow key pressed on any cell.
C29_SelectedCellInGrid ==
    ui.mounted =>
        \/ gameState.selectedCell = nullCell
        \/ gameState.selectedCell \in Cells(gameState.gridConfig)


----------------------------------------------------------------------------
\* C30: in every state of the game endTime is set exactly when isComplete is
\* true, so the elapsed time stands still exactly while the puzzle is complete.
C30_EndTimeIffComplete ==
    (gameState.endTime # undefined) <=> gameState.isComplete

====
